---- MODULE Spec2Model ----
(***************************************************************************)
(* Model of goslingchatbot.js: a terminal chat loop (chat) that appends    *)
(* each input line to conversationHistory, calls getGoslingResponse, which *)
(* posts the history to a remote endpoint and appends the reply, prints    *)
(* the returned text and prompts again, until "exit"/"quit" is typed.      *)
(*                                                                         *)
(* Texts are sequences of tokens.  A line typed by the user is a sequence  *)
(* of one-character strings, because the exit test lower-cases it; the     *)
(* fixed texts of the program are one-token sequences.                     *)
(***************************************************************************)
EXTENDS Integers, Sequences, FiniteSets, TLC

\* ------------------------------------------------------------------ bounds
\* The number of non-exit input lines a run accepts.
MaxInputs == 3

\* ------------------------------------------------------- program constants
PERSONA_PROMPT == <<"PERSONA_PROMPT">>

OPENING_LINE == <<"Hey Buddy. What's on your mind?">>

FALLBACK_BLANK == <<"I'm drawing a blank right now.">>

FALLBACK_SITTING == <<"I'm just sitting here for a minute.">>

FALLBACK_ERROR == <<"Something's off. Give me a moment.">>

Fallbacks == {FALLBACK_BLANK, FALLBACK_SITTING, FALLBACK_ERROR}

\* A value no text of the program equals: a local that has not been assigned.
Unassigned == <<"<unassigned>">>

\* ------------------------------------------------------------ the history
Turn(role, text) == [role |-> role, parts |-> <<[text |-> text]>>]

TextOf(turn) == turn.parts[1].text

SeedHistory == <<Turn("user", PERSONA_PROMPT), Turn("model", OPENING_LINE)>>

\* PushUser, were empty lines skipped.
PushUserNonEmpty(history, text) ==
    IF text = <<>> THEN history ELSE Append(history, Turn("user", text))

PushUser(history, text) == Append(history, Turn("user", text))

\* PushModel, were the reply not stored.
PushModelDropped(history, text) == history

\* PushModel, were the reply written over the last turn.
PushModelOverwrites(history, text) ==
    [history EXCEPT ![Len(history)] = Turn("model", text)]

\* PushModel, were the reply stored with the USER role.
PushModelAsUser(history, text) == Append(history, Turn("user", text))

PushModel(history, text) == Append(history, Turn("model", text))

\* ------------------------------------------------ String.prototype.toLowerCase
UPPER == <<"A","B","C","D","E","F","G","H","I","J","K","L","M",
           "N","O","P","Q","R","S","T","U","V","W","X","Y","Z">>

LOWER == <<"a","b","c","d","e","f","g","h","i","j","k","l","m",
           "n","o","p","q","r","s","t","u","v","w","x","y","z">>

ToLowerChar(c) ==
    IF \E i \in 1..Len(UPPER) : UPPER[i] = c
    THEN LOWER[CHOOSE i \in 1..Len(UPPER) : UPPER[i] = c]
    ELSE c

ToLowerCase(s) == [i \in 1..Len(s) |-> ToLowerChar(s[i])]

EXIT == <<"e","x","i","t">>

QUIT == <<"q","u","i","t">>

\* IsExit, without the toLowerCase() calls.
IsExitCaseSensitive(userInput) == userInput = EXIT \/ userInput = QUIT

IsExit(userInput) ==
    ToLowerCase(userInput) = EXIT \/ ToLowerCase(userInput) = QUIT

\* The lines the user may type.
ExitLines ==
    { EXIT, QUIT, <<"E","x","i","t">>, <<"Q","U","I","T">>, <<"e","X","i","T">> }

ChatLines ==
    { <<>>, <<"h","i">>, <<"e","x","i","t","s">> }

Lines == ExitLines \cup ChatLines

\* ------------------------------------------------------------ JSON values
\* Every value is a record with a kind; an object carries every property
\* the program reads, Undefined where the property is absent.
Undefined == [kind |-> "undefined"]

Null == [kind |-> "null"]

Thrown == [kind |-> "TypeError"]

Str(chars) == [kind |-> "string", chars |-> chars]

Arr(items) == [kind |-> "array", items |-> items]

Obj(candidates, content, parts, text) ==
    [kind |-> "object", candidates |-> candidates, content |-> content,
     parts |-> parts, text |-> text]

EmptyObj == Obj(Undefined, Undefined, Undefined, Undefined)

Nullish(v) == v.kind \in {"undefined", "null"}

IsThrown(v) == v.kind = "TypeError"

\* v.name : a TypeError on undefined/null, undefined where v has no such
\* property.
Get(v, name) ==
    IF IsThrown(v) THEN v
    ELSE IF Nullish(v) THEN Thrown
    ELSE IF v.kind = "object" THEN v[name]
    ELSE Undefined

\* v[i] with a zero-based index.
Index(v, i) ==
    IF IsThrown(v) THEN v
    ELSE IF Nullish(v) THEN Thrown
    ELSE IF v.kind = "array" /\ i < Len(v.items) THEN v.items[i + 1]
    ELSE Undefined

\* v.length
Length(v) ==
    IF v.kind = "array" THEN Len(v.items)
    ELSE IF v.kind = "string" THEN Len(v.chars)
    ELSE -1

\* Truthy, were the empty string taken for a value.
TruthyUnlessNullish(v) == v.kind \notin {"undefined", "null"}

\* JavaScript truthiness of a value.
Truthy(v) ==
    CASE v.kind \in {"undefined", "null"} -> FALSE
      [] v.kind = "string" -> v.chars # <<>>
      [] OTHER -> TRUE

\* ------------------------------------------------- the remote endpoint
\* response.ok
Ok(status) == status \in 200..299

Statuses == {200, 404, 500}

ReplyTexts == { <<"Hey.">>, FALLBACK_ERROR }

Part(text) == Obj(Undefined, Undefined, Undefined, text)

Content(parts) == Obj(Undefined, Undefined, parts, Undefined)

Candidate(content) == Obj(Undefined, content, Undefined, Undefined)

Data(candidates) == Obj(candidates, Undefined, Undefined, Undefined)

WithText(text) == Data(Arr(<<Candidate(Content(Arr(<<Part(text)>>)))>>))

\* The shapes of a parsed body of an OK response.
NoCandidatesBodies == { EmptyObj, Data(Null), Data(Arr(<<>>)) }

NoContentBodies == { Data(Arr(<<EmptyObj>>)), Data(Arr(<<Candidate(Null)>>)) }

NoPartsBody == Data(Arr(<<Candidate(EmptyObj)>>))

NoTextBodies ==
    { Data(Arr(<<Candidate(Content(Arr(<<>>)))>>)),
      WithText(Undefined),
      WithText(Str(<<>>)) }

TextBodies == { WithText(Str(t)) : t \in ReplyTexts }

OkBodies ==
    {Null} \cup NoCandidatesBodies \cup NoContentBodies \cup {NoPartsBody}
        \cup NoTextBodies \cup TextBodies

Response(status, parsable, data) ==
    [kind |-> "response", status |-> status, parsable |-> parsable, data |-> data]

Rejected == [kind |-> "rejected", status |-> 0, parsable |-> FALSE, data |-> Undefined]

NoResponse == [kind |-> "none", status |-> 0, parsable |-> FALSE, data |-> Undefined]

\* The text of a body of TextBodies.
BodyText(data) == data.candidates.items[1].content.parts.items[1].text.chars

\* The fetch succeeded with a non-empty candidate text.
HasText(settled) ==
    /\ settled.kind = "response"
    /\ settled.status = 200
    /\ settled.parsable
    /\ settled.data \in TextBodies

\* What the awaited fetch can settle with.
Settlements ==
    {Rejected}
        \cup { Response(s, FALSE, Undefined) : s \in Statuses }
        \cup { Response(s, TRUE, EmptyObj) : s \in Statuses \ {200} }
        \cup { Response(200, TRUE, d) : d \in OkBodies }

\* ------------------------------------------------------ getGoslingResponse
NoError == [name |-> "none", status |-> 0]

NetworkError == [name |-> "TypeError: fetch failed", status |-> 0]

SyntaxError == [name |-> "SyntaxError", status |-> 0]

TypeError == [name |-> "TypeError", status |-> 0]

\* new Error(`API request failed with status ${response.status}`)
StatusError(status) == [name |-> "Error: API request failed with status", status |-> status]

Return(text) == [type |-> "return", text |-> text, error |-> NoError]

Throw(error) == [type |-> "throw", text |-> Unassigned, error |-> error]

Result(history, completion, log) ==
    [history |-> history, completion |-> completion, log |-> log]

\* Body(value), with value evaluated once and then named: a local constant.
Const(value, Body(_)) == CHOOSE result \in { Body(v) : v \in {value} } : TRUE

\* data.candidates[0]?.content?.parts[0]?.text
BotResponse(data) ==
    Const(Index(Get(data, "candidates"), 0), LAMBDA candidate :
    IF IsThrown(candidate) THEN candidate
    ELSE IF Nullish(candidate) THEN Undefined
    ELSE Const(Get(candidate, "content"), LAMBDA content :
         IF Nullish(content) THEN Undefined
         ELSE Const(Index(Get(content, "parts"), 0), LAMBDA part :
              IF IsThrown(part) THEN part
              ELSE IF Nullish(part) THEN Undefined
              ELSE Get(part, "text"))))

\* NoCandidates, without the length test.
NoCandidatesIgnoringLength(candidates) == ~Truthy(candidates)

\* !data.candidates || data.candidates.length === 0
NoCandidates(candidates) == ~Truthy(candidates) \/ Length(candidates) = 0

\* The body of the try block from `const data = await response.json()` on,
\* once the body has parsed as data.
HandleData(history, data) ==
    Const(Get(data, "candidates"), LAMBDA candidates :
    IF IsThrown(candidates) THEN Result(history, Throw(TypeError), {})
    ELSE IF NoCandidates(candidates)
    THEN Result(history, Return(FALLBACK_BLANK), {"no candidates"})
    ELSE Const(BotResponse(data), LAMBDA botResponse :
         IF IsThrown(botResponse) THEN Result(history, Throw(TypeError), {})
         ELSE IF ~Truthy(botResponse)
         THEN Result(history, Return(FALLBACK_SITTING), {})
         ELSE Result(PushModel(history, botResponse.chars),
                     Return(botResponse.chars), {})))

\* Catch, were the fallback text stored as a MODEL turn.
CatchPersists(result) ==
    IF result.completion.type = "throw"
    THEN Result(Append(result.history, Turn("model", FALLBACK_ERROR)),
                Return(FALLBACK_ERROR), result.log \cup {"catch"})
    ELSE result

\* Catch, were only the status failure handled and the rest rethrown.
CatchStatusOnly(result) ==
    IF result.completion.type = "throw" /\ result.completion.error.status # 0
    THEN Result(result.history, Return(FALLBACK_ERROR), result.log \cup {"catch"})
    ELSE result

\* The catch clause of getGoslingResponse.
Catch(result) ==
    IF result.completion.type = "throw"
    THEN Result(result.history, Return(FALLBACK_ERROR), result.log \cup {"catch"})
    ELSE result

\* ------------------------------------------------------------------ state
VARIABLES
    apiKey,               \* whether GEMINI_API_KEY is set
    pc,                   \* where the program is suspended
    conversationHistory,  \* the module-level history array
    userInput,            \* the line handed to the rl.question callback
    request,              \* the body of the request in flight: { contents }
    response,             \* what the awaited fetch settled with
    errorBody,            \* errorBody of the non-OK branch
    caught,               \* the error the catch clause received
    botResponse,          \* chat's botResponse: the text just returned
    pendingPrompts,       \* rl.question callbacks waiting for a line
    pendingCalls,         \* calls of getGoslingResponse not yet returned
    rlClosed,             \* rl.close() was called
    exitCode,             \* -1 while running, 1 after process.exit(1)
    greeted,              \* the opening line was printed
    promptsIssued,        \* number of rl.question calls so far
    repliesPrinted,       \* number of `Ryan: ${botResponse}` lines so far
    stderr,               \* what the current call has logged
    terminal,             \* what was written to the terminal, in order
    requests,             \* number of fetch calls issued so far
    inputs,               \* the non-exit lines accepted so far, in order
    succeeded             \* per settled fetch: whether it brought a non-empty text

vars ==
    << apiKey, pc, conversationHistory, userInput, request, response, errorBody,
       caught, botResponse, pendingPrompts, pendingCalls, rlClosed, exitCode,
       greeted, promptsIssued, repliesPrinted, stderr, terminal, requests, inputs,
       succeeded >>

driverVars == << apiKey, userInput, rlClosed, exitCode, greeted, requests, inputs >>

Init ==
    /\ apiKey \in BOOLEAN
    /\ pc = "main"
    /\ conversationHistory = SeedHistory
    /\ userInput = Unassigned
    /\ request = [contents |-> <<>>]
    /\ response = NoResponse
    /\ errorBody = Undefined
    /\ caught = NoError
    /\ botResponse = Unassigned
    /\ pendingPrompts = 0
    /\ pendingCalls = 0
    /\ rlClosed = FALSE
    /\ exitCode = -1
    /\ greeted = FALSE
    /\ promptsIssued = 0
    /\ repliesPrinted = 0
    /\ stderr = {}
    /\ terminal = <<>>
    /\ requests = 0
    /\ inputs = <<>>
    /\ succeeded = <<>>

\* ------------------------------------------------------------------- main
\* Main, were the opening line printed before the key is tested.
MainGreetsFirst ==
    /\ pc = "main"
    /\ greeted' = TRUE
    /\ IF ~apiKey
       THEN /\ exitCode' = 1
            /\ terminal' = terminal \o <<"greeting">>
            /\ pc' = "exited"
            /\ UNCHANGED << pendingPrompts, promptsIssued >>
       ELSE /\ terminal' = terminal \o <<"greeting", "prompt">>
            /\ pendingPrompts' = pendingPrompts + 1
            /\ promptsIssued' = promptsIssued + 1
            /\ pc' = "awaitInput"
            /\ UNCHANGED exitCode
    /\ UNCHANGED << apiKey, conversationHistory, userInput, request, response,
                    errorBody, caught, botResponse, pendingCalls, rlClosed,
                    repliesPrinted, stderr, requests, inputs, succeeded >>

Main ==
    /\ pc = "main"
    /\ IF ~apiKey
       THEN /\ exitCode' = 1
            /\ pc' = "exited"
            /\ UNCHANGED << greeted, pendingPrompts, promptsIssued, terminal >>
       ELSE /\ greeted' = TRUE
            /\ terminal' = terminal \o <<"greeting", "prompt">>
            /\ pendingPrompts' = pendingPrompts + 1
            /\ promptsIssued' = promptsIssued + 1
            /\ pc' = "awaitInput"
            /\ UNCHANGED exitCode
    /\ UNCHANGED << apiKey, conversationHistory, userInput, request, response,
                    errorBody, caught, botResponse, pendingCalls, rlClosed,
                    repliesPrinted, stderr, requests, inputs, succeeded >>

\* ------------------------------------------------------------------- chat
\* JSON.stringify({ contents: conversationHistory }): the turns as they are
\* when the call is made.
\* RequestBody, were only the line just entered sent.
RequestBodyLatestOnly(history) == [contents |-> <<history[Len(history)]>>]

RequestBody(history) == [contents |-> history]

\* IssueFetch, were the request sent a second time.
IssueFetchTwice(count) == count + 2

\* The number of requests issued once getGoslingResponse has called fetch:
\* one call of fetch per call of getGoslingResponse.
IssueFetch(count) == count + 1

\* PrintAndPrompt, were chat() called before the reply is printed.
PromptAndPrint(written) == written \o <<"prompt", "reply">>

\* console.log(`Ryan: ${botResponse}`) and then chat(), which prompts.
PrintAndPrompt(written) == written \o <<"reply", "prompt">>

\* PromptsWhileCalling, were chat() called before the await.
PromptsKept(prompts) == prompts

\* The number of prompts waiting once the callback has taken its line and
\* awaits getGoslingResponse: chat() is called again only after the await.
PromptsWhileCalling(prompts) == prompts - 1

\* OnLine, were the `return` after rl.close() missing: the exit line is then
\* pushed and sent like any other.
OnLineFallsThrough(line) ==
    /\ pc = "awaitInput"
    /\ pendingPrompts > 0
    /\ ~rlClosed
    /\ userInput' = line
    /\ Len(inputs) < MaxInputs
    /\ rlClosed' = IsExit(line)
    /\ terminal' = IF IsExit(line) THEN terminal \o <<"farewell">> ELSE terminal
    /\ conversationHistory' = PushUser(conversationHistory, line)
    /\ inputs' = Append(inputs, line)
    /\ request' = RequestBody(conversationHistory')
    /\ requests' = IssueFetch(requests)
    /\ response' = NoResponse
    /\ stderr' = {}
    /\ pendingPrompts' = PromptsWhileCalling(pendingPrompts)
    /\ pendingCalls' = pendingCalls + 1
    /\ pc' = "awaitFetch"
    /\ UNCHANGED << apiKey, errorBody, caught, botResponse, exitCode, greeted,
                    promptsIssued, repliesPrinted, succeeded >>

\* The rl.question callback, up to its await of getGoslingResponse, which has
\* itself run up to its await of fetch.
OnLine(line) ==
    /\ pc = "awaitInput"
    /\ pendingPrompts > 0
    /\ ~rlClosed
    /\ userInput' = line
    /\ IF IsExit(line)
       THEN /\ rlClosed' = TRUE
            /\ pendingPrompts' = pendingPrompts - 1
            /\ terminal' = terminal \o <<"farewell">>
            /\ pc' = "terminated"
            /\ UNCHANGED << conversationHistory, request, response, pendingCalls,
                            stderr, requests, inputs >>
       ELSE /\ Len(inputs) < MaxInputs
            /\ conversationHistory' = PushUser(conversationHistory, line)
            /\ inputs' = Append(inputs, line)
            /\ request' = RequestBody(conversationHistory')
            /\ requests' = IssueFetch(requests)
            /\ response' = NoResponse
            /\ stderr' = {}
            /\ pendingPrompts' = PromptsWhileCalling(pendingPrompts)
            /\ pendingCalls' = pendingCalls + 1
            /\ pc' = "awaitFetch"
            /\ UNCHANGED << rlClosed, terminal >>
    /\ UNCHANGED << apiKey, errorBody, caught, botResponse, exitCode, greeted,
                    promptsIssued, repliesPrinted, succeeded >>

\* getGoslingResponse settles with `raw` (the outcome of its try block): the
\* catch clause runs, and chat prints the returned text and calls chat().  A
\* call that threw would reject the callback's promise instead.
Finish(raw) ==
    \E thrown \in {raw.completion.error}, result \in {Catch(raw)} :
    /\ caught' = thrown
    /\ stderr' = stderr \cup result.log
    /\ conversationHistory' = result.history
    /\ pendingCalls' = pendingCalls - 1
    /\ IF result.completion.type = "return"
       THEN /\ botResponse' = result.completion.text
            /\ repliesPrinted' = repliesPrinted + 1
            /\ terminal' = PrintAndPrompt(terminal)
            /\ pendingPrompts' = pendingPrompts + 1
            /\ promptsIssued' = promptsIssued + 1
            /\ pc' = "awaitInput"
       ELSE /\ pc' = "crashed"
            /\ UNCHANGED << botResponse, repliesPrinted, pendingPrompts,
                            promptsIssued, terminal >>

\* `await fetch(...)` settles.
FetchSettles(settled) ==
    /\ pc = "awaitFetch"
    /\ response' = settled
    /\ IF settled.kind = "rejected"
       THEN /\ Finish(Result(conversationHistory, Throw(NetworkError), {}))
            /\ UNCHANGED errorBody
       ELSE /\ pc' = IF ~Ok(settled.status) THEN "awaitErrorJson" ELSE "awaitJson"
            /\ errorBody' = IF ~Ok(settled.status)
                            THEN Str(<<"Could not read error body.">>)
                            ELSE errorBody
            /\ UNCHANGED << conversationHistory, caught, botResponse,
                            pendingPrompts, pendingCalls, promptsIssued,
                            repliesPrinted, stderr, terminal >>
    /\ succeeded' = Append(succeeded, HasText(settled))
    /\ UNCHANGED << driverVars, request >>

\* `await response.json()` of an OK response settles.
JsonSettles ==
    /\ pc = "awaitJson"
    /\ IF response.parsable
       THEN Finish(HandleData(conversationHistory, response.data))
       ELSE Finish(Result(conversationHistory, Throw(SyntaxError), {}))
    /\ UNCHANGED << driverVars, request, response, errorBody, succeeded >>

\* `errorBody = await response.json()` of a non-OK response settles.
ErrorJsonSettles ==
    /\ pc = "awaitErrorJson"
    /\ IF response.parsable
       THEN /\ errorBody' = response.data
            /\ Finish(Result(conversationHistory,
                             Throw(StatusError(response.status)), {"status"}))
       ELSE /\ pc' = "awaitErrorText"
            /\ UNCHANGED << errorBody, conversationHistory, caught, botResponse,
                            pendingPrompts, pendingCalls, promptsIssued,
                            repliesPrinted, stderr, terminal >>
    /\ UNCHANGED << driverVars, request, response, succeeded >>

\* `errorBody = await response.text()` settles: json() has already read the
\* body, so text() rejects with a TypeError.
ErrorTextSettles ==
    /\ pc = "awaitErrorText"
    /\ Finish(Result(conversationHistory, Throw(TypeError), {}))
    /\ UNCHANGED << driverVars, request, response, errorBody, succeeded >>

Next ==
    \/ Main
    \/ \E line \in Lines : OnLine(line)
    \/ \E settled \in Settlements : FetchSettles(settled)
    \/ JsonSettles
    \/ ErrorJsonSettles
    \/ ErrorTextSettles

Spec == Init /\ [][Next]_vars

\* The steps the event loop takes when the request or a body read settles.
Settle ==
    \/ \E settled \in Settlements : FetchSettles(settled)
    \/ JsonSettles
    \/ ErrorJsonSettles
    \/ ErrorTextSettles

\* The program when every request and body read eventually resolves or
\* rejects: the continuation of an await that has settled is run.
LiveSpec == Spec /\ WF_vars(Settle)

\* ----------------------------------------------------------------- claims
\* The last call of getGoslingResponse has returned or thrown.
CallOver == pc \in {"awaitInput", "terminated", "crashed"}

\* The last call has returned its text to chat.
Returned == pc \in {"awaitInput", "terminated"} /\ response.kind # "none"

AllSucceeded == \A i \in 1..Len(succeeded) : succeeded[i]

\* C1: back at the prompt after N non-exit inputs whose fetches all brought a
\* non-empty text, the history is the two seed turns followed, for each input
\* in order, by its USER turn and a MODEL turn: 2 + 2N turns.
C1_LengthAfterSuccesses ==
    (pc = "awaitInput" /\ AllSucceeded) =>
        /\ Len(conversationHistory) = 2 + 2 * Len(inputs)
        /\ SubSeq(conversationHistory, 1, 2) = SeedHistory
        /\ \A i \in 1..Len(inputs) :
              /\ conversationHistory[2 * i + 1] = Turn("user", inputs[i])
              /\ conversationHistory[2 * i + 2].role = "model"

C1_Witness ==
    /\ pc = "awaitInput"
    /\ AllSucceeded
    /\ Len(inputs) = 2
    /\ Len(conversationHistory) = 6

NonOk == response.kind = "response" /\ response.status \notin 200..299

\* C2: a call answered with a non-OK status returns "Something's off. Give me
\* a moment." and leaves the history as it was when the call was made,
\* whether or not the error body parses.
C2_NonOkStatus ==
    (CallOver /\ NonOk) =>
        /\ pc # "crashed"
        /\ botResponse = FALLBACK_ERROR
        /\ conversationHistory = request.contents

C2_Witness ==
    /\ pc = "awaitInput"
    /\ response = Response(500, FALSE, Undefined)
    /\ botResponse = FALLBACK_ERROR
    /\ Len(inputs) = 2

OkWith(bodies) ==
    /\ response.kind = "response"
    /\ response.status = 200
    /\ response.parsable
    /\ response.data \in bodies

\* C3: a call answered OK whose first candidate's first part's text is absent
\* or empty, in each shape of absence (no content, no parts list, empty parts
\* list, part without text, empty text), returns "I'm just sitting here for a
\* minute." and leaves the history unchanged.
C3_AbsentText ==
    (CallOver /\ OkWith(NoContentBodies \cup {NoPartsBody} \cup NoTextBodies)) =>
        /\ pc # "crashed"
        /\ botResponse = FALLBACK_SITTING
        /\ conversationHistory = request.contents

\* C4: a call answered OK with a body whose candidates list is missing or
\* empty returns "I'm drawing a blank right now." and leaves the history
\* unchanged.
C4_NoCandidates ==
    (CallOver /\ OkWith(NoCandidatesBodies)) =>
        /\ pc # "crashed"
        /\ botResponse = FALLBACK_BLANK
        /\ conversationHistory = request.contents

C4_Witness ==
    /\ pc = "awaitInput"
    /\ OkWith({Data(Arr(<<>>))})
    /\ botResponse = FALLBACK_BLANK

\* C5: a call answered OK with a non-empty text t returns t, and the history
\* is the history of the call with one MODEL turn of text t appended.
C5_ReplyStored ==
    (CallOver /\ OkWith(TextBodies)) =>
        /\ pc # "crashed"
        /\ botResponse = BodyText(response.data)
        /\ conversationHistory =
              Append(request.contents, Turn("model", BodyText(response.data)))

C5_Witness ==
    /\ pc = "awaitInput"
    /\ OkWith({WithText(Str(<<"Hey.">>))})
    /\ botResponse = <<"Hey.">>
    /\ Len(conversationHistory) = Len(request.contents) + 1

\* C6: a line that is "exit" or "quit" in any letter case ends the loop: the
\* step that takes it issues no request, appends nothing to the history and
\* leaves no prompt and no call pending.
C6_ExitBeforeAppend ==
    [][(pc = "awaitInput" /\ pc' # "awaitInput" /\ userInput' \in ExitLines) =>
          /\ pc' = "terminated"
          /\ rlClosed'
          /\ requests' = requests
          /\ pendingCalls' = 0
          /\ pendingPrompts' = 0
          /\ conversationHistory' = conversationHistory]_vars

C6_Witness ==
    /\ pc = "terminated"
    /\ userInput = <<"Q","U","I","T">>
    /\ requests = 1
    /\ Len(conversationHistory) = 4

\* C7: at most one suspension point is outstanding: never two prompts, never
\* two calls, never a prompt and a call together; and while a call is
\* outstanding no step appends a USER turn.
C7_OneSuspensionPoint ==
    /\ [](pendingPrompts + pendingCalls <= 1 /\ pendingPrompts >= 0 /\ pendingCalls >= 0)
    /\ [][pendingCalls > 0 =>
            \/ conversationHistory' = conversationHistory
            \/ /\ Len(conversationHistory') = Len(conversationHistory) + 1
               /\ conversationHistory'[Len(conversationHistory')].role = "model"]_vars

C7_Witness ==
    /\ pc = "awaitJson"
    /\ pendingCalls = 1
    /\ pendingPrompts = 0
    /\ Len(inputs) = 2

\* C8: a call whose request has resolved or rejected never throws to chat, and
\* the text it returns is the remote reply text or one of the three fallback
\* strings.
C8_AlwaysReturnsText ==
    /\ pc # "crashed"
    /\ Returned =>
          \/ botResponse \in Fallbacks
          \/ OkWith(TextBodies) /\ botResponse = BodyText(response.data)

C8_Witness ==
    /\ pc = "awaitInput"
    /\ response = Rejected
    /\ caught = NetworkError
    /\ botResponse = FALLBACK_ERROR

IsPrefix(s, t) == Len(s) <= Len(t) /\ SubSeq(t, 1, Len(s)) = s

\* C9: the history always starts with the seed USER turn and the seed MODEL
\* turn, and every step leaves the previous history as a prefix of the new one.
C9_AppendOnly ==
    /\ [](/\ Len(conversationHistory) >= 2
          /\ conversationHistory[1] = Turn("user", PERSONA_PROMPT)
          /\ conversationHistory[2] = Turn("model", OPENING_LINE))
    /\ [][IsPrefix(conversationHistory, conversationHistory')]_vars

C9_Witness ==
    /\ Len(conversationHistory) = 5
    /\ conversationHistory[3].role = "user"
    /\ conversationHistory[4].role = "model"
    /\ conversationHistory[5].role = "user"

\* C10: every turn of the history, USER or MODEL, has a non-empty text.
C10_NonEmptyText ==
    \A i \in 1..Len(conversationHistory) : TextOf(conversationHistory[i]) # <<>>

\* C11: with the API key missing the program exits with status 1 and nothing
\* else happens: the opening line is not printed, no prompt is issued, no
\* request is sent and the history stays the seed pair.
C11_MissingKeyExits ==
    /\ ~apiKey =>
          /\ pc \in {"main", "exited"}
          /\ ~greeted
          /\ terminal = <<>>
          /\ promptsIssued = 0
          /\ pendingPrompts = 0
          /\ requests = 0
          /\ conversationHistory = SeedHistory
    /\ pc = "exited" => exitCode = 1 /\ ~apiKey
    /\ (~apiKey /\ pc # "main") => pc = "exited"

C11_Witness ==
    /\ ~apiKey
    /\ pc = "exited"
    /\ exitCode = 1
    /\ terminal = <<>>

\* C12: the body of every request is the whole history as it is when the call
\* is made, in order: it starts with the two seed turns, ends with the USER
\* turn of the line just entered, and is the history before the line plus
\* that turn.
C12_FullHistorySent ==
    [][requests' # requests =>
          /\ request'.contents = conversationHistory'
          /\ request'.contents =
                Append(conversationHistory, Turn("user", userInput'))
          /\ SubSeq(request'.contents, 1, 2) = SeedHistory
          /\ request'.contents[Len(request'.contents)] = Turn("user", userInput')]_vars

C12_Witness ==
    /\ pc = "awaitFetch"
    /\ requests = 3
    /\ Len(request.contents) = 6
    /\ request.contents = conversationHistory
    /\ request.contents[4].role = "user"
    /\ request.contents[5].role = "model"

\* C13: the number of requests issued always equals the number of non-exit
\* lines accepted, and a request is only ever issued by the step that accepts
\* a line: no step that settles a call, failed or not, issues another.
C13_OneRequestPerInput ==
    /\ [](requests = Len(inputs))
    /\ [][requests' # requests =>
            /\ requests' = requests + 1
            /\ pc = "awaitInput"
            /\ inputs' = Append(inputs, userInput')
            /\ ~(userInput' \in ExitLines)]_vars

C13_Witness ==
    /\ pc = "awaitInput"
    /\ requests = 2
    /\ Len(inputs) = 2
    /\ succeeded = <<FALSE, FALSE>>
    /\ caught = NetworkError

\* C14: once a non-exit line has started a call, the call's text is eventually
\* printed and the loop is back at the prompt; back at the prompt every
\* accepted line has had its reply printed and exactly one prompt was issued
\* after it; while the call is outstanding neither has happened yet; and on
\* the terminal every prompt but the first comes right after a reply.
C14_ReplyThenPrompt ==
    /\ (pendingCalls = 1) ~> (pc = "awaitInput")
    /\ [](pc = "awaitInput" =>
            /\ repliesPrinted = Len(inputs)
            /\ promptsIssued = Len(inputs) + 1
            /\ pendingPrompts = 1)
    /\ [](pendingCalls = 1 =>
            /\ repliesPrinted = Len(inputs) - 1
            /\ promptsIssued = Len(inputs)
            /\ pendingPrompts = 0)
    /\ [](\A i \in 1..Len(terminal) :
            /\ terminal[i] = "prompt" =>
                  /\ i >= 2
                  /\ terminal[i - 1] = (IF i = 2 THEN "greeting" ELSE "reply")
            /\ terminal[i] = "reply" =>
                  /\ i < Len(terminal)
                  /\ terminal[i + 1] = "prompt")

C14_Witness ==
    /\ pc = "awaitInput"
    /\ repliesPrinted = 2
    /\ promptsIssued = 3
    /\ succeeded = <<TRUE, FALSE>>
    /\ terminal = <<"greeting", "prompt", "reply", "prompt", "reply", "prompt">>

\* C15: once the exit line has been handled and the terminal input released,
\* the program is in its terminal state with no prompt and no call pending,
\* and no later step issues a prompt, sends a request or changes the history.
C15_TerminatedIsFinal ==
    /\ [](rlClosed <=> pc = "terminated")
    /\ [](rlClosed => pendingPrompts = 0 /\ pendingCalls = 0)
    /\ [][rlClosed =>
            /\ rlClosed'
            /\ pc' = "terminated"
            /\ promptsIssued' = promptsIssued
            /\ requests' = requests
            /\ conversationHistory' = conversationHistory]_vars

C15_Witness ==
    /\ pc = "terminated"
    /\ rlClosed
    /\ userInput = EXIT
    /\ terminal[Len(terminal)] = "farewell"
    /\ Len(conversationHistory) = 5

Successes == Cardinality({ i \in 1..Len(succeeded) : succeeded[i] })

RoleCount(role) ==
    Cardinality({ i \in 1..Len(conversationHistory) :
                     conversationHistory[i].role = role })

\* C17: with no call outstanding, after N accepted non-exit lines of which S
\* got the remote text, the history has 2 + N + S turns: 1 + N USER turns and
\* 1 + S MODEL turns.
C17_LengthByOutcome ==
    pendingCalls = 0 =>
        /\ Len(conversationHistory) = 2 + Len(inputs) + Successes
        /\ RoleCount("user") = 1 + Len(inputs)
        /\ RoleCount("model") = 1 + Successes

C17_Witness ==
    /\ pc = "awaitInput"
    /\ succeeded = <<FALSE, TRUE, FALSE>>
    /\ Len(conversationHistory) = 6
    /\ botResponse = FALLBACK_SITTING

\* The place in the history of the USER turn of the k-th accepted line.
PlaceOf(k) == 2 + k + Cardinality({ j \in 1..(k - 1) : succeeded[j] })

\* C18: every MODEL turn comes right after a USER turn (so no two MODEL turns
\* are adjacent and MODEL turns never outnumber USER turns), and two USER
\* turns are adjacent exactly where the call for the earlier one took a
\* fallback path instead of storing the remote text.
C18_TurnOrder ==
    /\ \A i \in 1..Len(conversationHistory) :
          conversationHistory[i].role = "model" =>
              i > 1 /\ conversationHistory[i - 1].role = "user"
    /\ RoleCount("model") <= RoleCount("user")
    /\ \A k \in 1..(Len(inputs) - 1) :
          /\ conversationHistory[PlaceOf(k)] = Turn("user", inputs[k])
          /\ conversationHistory[PlaceOf(k) + 1].role = "user" <=> ~succeeded[k]
    /\ \A i \in 1..(Len(conversationHistory) - 1) :
          (conversationHistory[i].role = "user"
              /\ conversationHistory[i + 1].role = "user") =>
              \E k \in 1..(Len(inputs) - 1) : i = PlaceOf(k) /\ ~succeeded[k]

C18_Witness ==
    /\ pc = "awaitFetch"
    /\ succeeded = <<TRUE, FALSE>>
    /\ Len(conversationHistory) = 6
    /\ conversationHistory[4].role = "model"
    /\ conversationHistory[5].role = "user"
    /\ conversationHistory[6].role = "user"

====
